---------------------------- MODULE Spec2Model ----------------------------
(***************************************************************************)
(* A model of src/cli.hpp: commandlineinterpreter<_Elem>, the registry of  *)
(* command_base objects it owns, and its operations register_command,      *)
(* run, get, clear, help and the destructor.                               *)
(*                                                                         *)
(* Strings are sequences of character codes (std::basic_string), so that   *)
(* basic_string::compare and std::stoi are computed, not assumed.          *)
(* command_base objects live in a heap: an object has the values its       *)
(* virtual command() and argumentCount() return, and a count of how often  *)
(* it has been deleted.  commands_ is the vector of pointers into it.      *)
(***************************************************************************)
EXTENDS Integers, Sequences, FiniteSets

(* ------------------------------ bounds -------------------------------- *)
\* most entries commands_ ever holds (the vector never shrinks)
MaxCmds == 2
\* largest argumentCount() of a modelled command
MaxArity == 1
\* most positional arguments after the subcommand token
MaxArgs == 2

(* --------------------------- string values ---------------------------- *)
\* "add", "Add", "sub", "mul", "prog", "3", "x" as character codes
StrAdd == <<97, 100, 100>>
StrAddUpper == <<65, 100, 100>>
StrSub == <<115, 117, 98>>
StrMul == <<109, 117, 108>>
StrProg == <<112>>
StrThree == <<51>>
StrX == <<120>>

\* names the modelled command objects answer from command()
CommandNames == {StrAdd, StrSub}
\* values of argv[1]: registered names, a case variant, an unknown name
SubcommandTokens == {StrAdd, StrAddUpper, StrSub, StrMul}
\* values of a positional argument: numeric text and non-numeric text
ArgTokens == {StrThree, StrX}
\* values argumentCount() answers; a negative one is not excluded by the type
Arities == (0 - 1) .. MaxArity

\* sequences over S of length 0..n
RECURSIVE SeqsUpTo(_, _)
SeqsUpTo(S, n) ==
    IF n = 0 THEN {<<>>}
    ELSE LET shorter == SeqsUpTo(S, n - 1)
         IN  shorter \cup {Append(s, x) : s \in {t \in shorter : Len(t) = n - 1}, x \in S}

\* the argument vectors main() can hand to the constructor
ArgVectors ==
    {<<>>, <<StrProg>>}
      \cup {<<StrProg, t>> \o a : t \in SubcommandTokens, a \in SeqsUpTo(ArgTokens, MaxArgs)}

(* ------------------------------ state --------------------------------- *)
VARIABLES
    argv,       \* argv_: the argument strings; argc_ is their number
    commands_,  \* commands_: the vector of command pointers (nullptr or a heap id)
    heap,       \* the command_base objects ever registered
    alive,      \* the interpreter is constructed, not destroyed, and the process runs
    op,         \* the member function called last
    ret,        \* what the last run() returned: <<v>>, or <<>> when it did not return
    out,        \* the lines the last run() printed
    invoked,    \* the objects whose run callback the last run() called, in order
    reads,      \* the get calls of that callback: <<index, position in argv>>
    ok,         \* the bool that callback returned: <<b>>, or <<>> when none did
    argv1read,  \* the last run() read argv_[1]
    fault       \* how the last run() left defined behaviour, or "none"

vars == <<argv, commands_, heap, alive, op, ret, out, invoked, reads, ok, argv1read, fault>>

nullptr == 0

argc_ == Len(argv)


(* ------------------- command_base: the virtual calls ------------------ *)
\* a command object: what command() and argumentCount() answer, and how
\* often delete has been applied to it
CommandObjects == [name : CommandNames, arity : Arities, deleted : {0}]

\* argumentName(i) of object c, kept symbolic: which object, which index
argumentName(c, i) == <<c, i>>

(* --------------------- std::basic_string::compare --------------------- *)
RECURSIVE compareFrom(_, _, _)
compareFrom(a, b, i) ==
    IF i > Len(a) \/ i > Len(b)
    THEN IF Len(a) < Len(b) THEN 0 - 1 ELSE IF Len(a) > Len(b) THEN 1 ELSE 0
    ELSE IF a[i] < b[i] THEN 0 - 1
    ELSE IF a[i] > b[i] THEN 1
    ELSE compareFrom(a, b, i + 1)

\* a comparison that folds upper case to lower case first
tolower(ch) == IF ch \in 65 .. 90 THEN ch + 32 ELSE ch
compare_nocase(a, b) ==
    compareFrom([i \in 1 .. Len(a) |-> tolower(a[i])],
                [i \in 1 .. Len(b) |-> tolower(b[i])], 1)

compare(a, b) == compareFrom(a, b, 1)

(* ------------------------------ run(), parts -------------------------- *)
\* a test for "at least one argument" in place of "at least two"
NoSubcommand_off_by_one(n) == n < 1

\* line 104: no subcommand token
NoSubcommand(n) == n < 2

\* line 109: the arguments after the file name and the command name
LocalArgc(n) == n - 2

\* the result of compare used as the truth value: true when the names differ
lambda_truthy(obj, command) == compare(obj.name, command) # 0

\* lines 112-114: the predicate handed to find_if
lambda(obj, command) == compare(obj.name, command) = 0

\* std::find_if over commands_: the first position the predicate accepts, or
\* Len + 1 for end(); calling command() through a null entry is undefined
RECURSIVE find_if_from(_, _, _, _)
find_if_from(cmds, h, command, i) ==
    IF i > Len(cmds) THEN [itr |-> Len(cmds) + 1, nullderef |-> FALSE]
    ELSE IF cmds[i] = nullptr THEN [itr |-> i, nullderef |-> TRUE]
    ELSE IF lambda(h[cmds[i]], command) THEN [itr |-> i, nullderef |-> FALSE]
    ELSE find_if_from(cmds, h, command, i + 1)

\* a search that keeps the last position the predicate accepts
RECURSIVE find_last_from(_, _, _, _, _)
find_last_from(cmds, h, command, i, best) ==
    IF i > Len(cmds) THEN [itr |-> best, nullderef |-> FALSE]
    ELSE IF cmds[i] = nullptr THEN [itr |-> i, nullderef |-> TRUE]
    ELSE find_last_from(cmds, h, command, i + 1,
                        IF lambda(h[cmds[i]], command) THEN i ELSE best)
find_last(cmds, h, command) == find_last_from(cmds, h, command, 1, Len(cmds) + 1)

find_if(cmds, h, command) == find_if_from(cmds, h, command, 1)

\* an arity test that only rejects too few arguments
ArityMismatch_too_few_only(count, argc) == count > argc

\* line 124
ArityMismatch(count, argc) == count # argc

\* the callback's bool returned as the int
ExitCode_bool_as_int(b) == IF b THEN 1 ELSE 0

\* lines 130-132
ExitCode(b) == IF b THEN 0 ELSE 1

(* ------------------------------ printing ------------------------------ *)
Line(k, name, labels) == [k |-> k, name |-> name, labels |-> labels]

\* line 119
UnknownCommandLine(command) == Line("Unknown command", command, <<>>)

\* the unknown-command text printed for a wrong argument count
WrongArgsLine_copied(command) == Line("Unknown command", command, <<>>)

\* line 125
WrongArgsLine(command) == Line("Wrong number of arguments for command", command, <<>>)

\* line 177: the build line, an empty line, "Commands:"
HelpHeader == <<Line("built", <<>>, <<>>), Line("", <<>>, <<>>), Line("Commands:", <<>>, <<>>)>>

\* lines 179-182: one command's line
CommandLine(c, obj) ==
    Line("command", obj.name, [i \in 1 .. (IF obj.arity > 0 THEN obj.arity ELSE 0)
                                 |-> argumentName(c, i - 1)])

\* lines 178-183: the for_each of help(); command() through a null entry is
\* undefined, after the lines before it were printed
RECURSIVE help_from(_, _, _, _)
help_from(cmds, h, i, lines) ==
    IF i > Len(cmds) THEN [lines |-> lines, nullderef |-> FALSE]
    ELSE IF cmds[i] = nullptr THEN [lines |-> lines, nullderef |-> TRUE]
    ELSE help_from(cmds, h, i + 1, Append(lines, CommandLine(cmds[i], h[cmds[i]])))

help(cmds, h) == help_from(cmds, h, 1, HelpHeader)

(* -------------------------------- get<T> ------------------------------ *)
\* the indices a callback may pass to get: below 0, inside and past the arity
GetIndices == (0 - 3) .. (MaxArity + 1)

\* an accessor that skips only the file name
GetPos_skip_one(index) == index + 1

\* lines 139, 144: get reads argv_[index + 2]
GetPos(index) == index + 2

IsDigit(ch) == ch \in 48 .. 57
IsSpace(ch) == ch = 32 \/ ch \in 9 .. 13

RECURSIVE SkipSpace(_, _)
SkipSpace(s, i) == IF i <= Len(s) /\ IsSpace(s[i]) THEN SkipSpace(s, i + 1) ELSE i

RECURSIVE DigitsValue(_, _, _)
DigitsValue(s, i, acc) ==
    IF i <= Len(s) /\ IsDigit(s[i]) THEN DigitsValue(s, i + 1, acc * 10 + (s[i] - 48)) ELSE acc

\* the largest int
IntMax == 2 ^ 30 + (2 ^ 30 - 1)

\* std::stoi: leading space, an optional sign, then digits; invalid_argument
\* without a digit, out_of_range outside int
stoi(s) ==
    LET i == SkipSpace(s, 1)
        neg == i <= Len(s) /\ s[i] = 45
        j == IF i <= Len(s) /\ s[i] \in {43, 45} THEN i + 1 ELSE i
        mag == DigitsValue(s, j, 0)
        v == IF neg THEN 0 - mag ELSE mag
    IN  IF ~ (j <= Len(s) /\ IsDigit(s[j])) THEN [threw |-> TRUE, value |-> 0]
        ELSE IF v > IntMax \/ v < 0 - IntMax - 1 THEN [threw |-> TRUE, value |-> 0]
        ELSE [threw |-> FALSE, value |-> v]

\* lines 138-140: operator>> into a value; a failed extraction leaves 0
extract(s) ==
    LET r == stoi(s) IN [threw |-> FALSE, value |-> IF r.threw THEN 0 ELSE r.value]

\* what one run callback does: the get call it makes, if any, through which
\* get (the stoi specialisation or the stream one), and the bool it returns
Callbacks ==
    [gets : {<<>>} \cup {<<i>> : i \in GetIndices}, kind : {"stoi", "stream"}, result : BOOLEAN]

\* the get calls of a callback, in order: each reads argv_[GetPos(index)]
\* with no test of the index; a position outside 0 .. argc_ - 1 is outside
\* the strings argv_ holds
RECURSIVE get_calls(_, _, _, _)
get_calls(av, cb, k, done) ==
    IF k > Len(cb.gets) THEN [reads |-> done, end |-> "returned"]
    ELSE LET pos == GetPos(cb.gets[k])
             now == Append(done, <<cb.gets[k], pos>>)
         IN  IF pos < 0 \/ pos >= Len(av) THEN [reads |-> now, end |-> "outofrange"]
             ELSE LET r == IF cb.kind = "stoi" THEN stoi(av[pos + 1]) ELSE extract(av[pos + 1])
                  IN  IF r.threw THEN [reads |-> now, end |-> "threw"]
                      ELSE get_calls(av, cb, k + 1, now)

(* -------------------------------- run() ------------------------------- *)
Outcome(r, o, inv, rd, b, a1, f) ==
    [ret |-> r, out |-> o, invoked |-> inv, reads |-> rd, ok |-> b, argv1read |-> a1,
     fault |-> f]

\* undefined behaviour reached with `o` printed: the process stops there, or
\* the call goes on to return some value
Undefined(o, inv, rd, a1, f) ==
    {Outcome(r, o, inv, rd, <<>>, a1, f) : r \in {<<>>, <<0>>, <<1>>}}

\* line 130: pCommand->run(this), for a callback that behaves as cb: the get
\* calls it makes, then the value run() returns from its bool
CallOutcomes(pCommand, av, cb) ==
    LET g == get_calls(av, cb, 1, <<>>)
    IN  IF g.end = "outofrange"
        THEN Undefined(<<>>, <<pCommand>>, g.reads, TRUE, "outofrange")
        ELSE IF g.end = "threw"
        THEN {Outcome(<<>>, <<>>, <<pCommand>>, g.reads, <<>>, TRUE, "threw")}
        ELSE {Outcome(<<ExitCode(cb.result)>>, <<>>, <<pCommand>>, g.reads, <<cb.result>>,
                      TRUE, "none")}

\* lines 102-133, on the registry cmds over heap h and the arguments av: the
\* ways the call can end, over everything the callback it calls may do
RunOutcomes(cmds, h, av) ==
    LET n == Len(av)
        hl == help(cmds, h)
        Failed(o, a1) ==
            IF hl.nullderef THEN Undefined(o \o hl.lines, <<>>, <<>>, a1, "nullderef")
            ELSE {Outcome(<<1>>, o \o hl.lines, <<>>, <<>>, <<>>, a1, "none")}
    IN  IF NoSubcommand(n) THEN Failed(<<>>, FALSE)
        ELSE IF n < 2 THEN Undefined(<<>>, <<>>, <<>>, TRUE, "outofrange")
        ELSE
          LET argc == LocalArgc(n)
              command == av[2]
              f == find_if(cmds, h, command)
              pCommand == IF f.itr <= Len(cmds) THEN cmds[f.itr] ELSE nullptr
          IN  IF f.nullderef THEN Undefined(<<>>, <<>>, <<>>, TRUE, "nullderef")
              ELSE IF pCommand = nullptr THEN Failed(<<UnknownCommandLine(command)>>, TRUE)
              ELSE IF ArityMismatch(h[pCommand].arity, argc)
                   THEN Failed(<<WrongArgsLine(command)>>, TRUE)
              ELSE UNION {CallOutcomes(pCommand, av, cb) : cb \in Callbacks}

(* ------------------------------- clear() ------------------------------ *)
\* line 167: delete c (delete of a null pointer does nothing)
Delete(h, c) == IF c = nullptr THEN h ELSE [h EXCEPT ![c].deleted = @ + 1]

\* the pointer left in the vector after delete
SlotAfterDelete_kept(c) == c

\* line 168: c = nullptr
SlotAfterDelete(c) == nullptr

\* lines 166-169: the for_each of clear()
RECURSIVE clear_from(_, _, _)
clear_from(cmds, h, i) ==
    IF i > Len(cmds) THEN [commands |-> cmds, heap |-> h]
    ELSE clear_from([cmds EXCEPT ![i] = SlotAfterDelete(cmds[i])], Delete(h, cmds[i]), i + 1)

ClearResult(cmds, h) == clear_from(cmds, h, 1)

(* ------------------------------ the program --------------------------- *)
Quiet ==
    /\ ret' = <<>>
    /\ out' = <<>>
    /\ invoked' = <<>>
    /\ reads' = <<>>
    /\ ok' = <<>>
    /\ argv1read' = FALSE
    /\ fault' = "none"

\* lines 91-93: the constructor keeps argc and argv; commands_ is empty
Init ==
    /\ argv \in ArgVectors
    /\ commands_ = <<>>
    /\ heap = <<>>
    /\ alive = TRUE
    /\ op = "ctor"
    /\ ret = <<>>
    /\ out = <<>>
    /\ invoked = <<>>
    /\ reads = <<>>
    /\ ok = <<>>
    /\ argv1read = FALSE
    /\ fault = "none"

\* line 99: push_back of a pointer to a command the caller has just made
\* and hands over
register_command ==
    /\ alive
    /\ Len(commands_) < MaxCmds
    /\ \E obj \in CommandObjects :
          /\ heap' = Append(heap, obj)
          /\ commands_' = Append(commands_, Len(heap) + 1)
    /\ op' = "register_command"
    /\ Quiet
    /\ UNCHANGED <<argv, alive>>

\* lines 102-133
run ==
    /\ alive
    /\ \E r \in RunOutcomes(commands_, heap, argv) :
          /\ ret' = r.ret
          /\ out' = r.out
          /\ invoked' = r.invoked
          /\ reads' = r.reads
          /\ ok' = r.ok
          /\ argv1read' = r.argv1read
          /\ fault' = r.fault
          /\ alive' = ~ (r.fault \in {"nullderef", "outofrange"} /\ r.ret = <<>>)
    /\ op' = "run"
    /\ UNCHANGED <<argv, commands_, heap>>

\* lines 164-170
clear ==
    /\ alive
    /\ LET c == ClearResult(commands_, heap)
       IN  /\ commands_' = c.commands
           /\ heap' = c.heap
    /\ op' = "clear"
    /\ Quiet
    /\ UNCHANGED <<argv, alive>>

\* line 96: the destructor calls clear()
destructor ==
    /\ alive
    /\ LET c == ClearResult(commands_, heap)
       IN  /\ commands_' = c.commands
           /\ heap' = c.heap
    /\ alive' = FALSE
    /\ op' = "destructor"
    /\ Quiet
    /\ UNCHANGED argv

Next == register_command \/ run \/ clear \/ destructor

Spec == Init /\ [][Next]_vars

(* ------------------------- vocabulary of the claims ------------------- *)
\* every entry of the registry is a command: no slot has been emptied by clear()
Live == \A i \in 1 .. Len(commands_) : commands_[i] # nullptr

NameAt(i) == heap[commands_[i]].name
ArityAt(i) == heap[commands_[i]].arity

DistinctNames ==
    \A i, j \in 1 .. Len(commands_) : i # j => NameAt(i) # NameAt(j)

\* argv[1] is, character for character, the name of entry i
NamedAs(i) == NameAt(i) = argv[2]

\* entry i is the earliest-registered entry that argv[1] names
Earliest(i) == NamedAs(i) /\ \A j \in 1 .. (i - 1) : ~ NamedAs(j)

\* the positional arguments supplied after the subcommand token
Supplied == argc_ - 2

\* the call stayed within defined behaviour
Defined == fault \notin {"nullderef", "outofrange"}

\* `lines` is the help listing of the registry: the build line, an empty
\* line, "Commands:", then one line per command in registration order with
\* its name and one label per argument
IsHelpListing(lines) ==
    /\ Len(lines) = 3 + Len(commands_)
    /\ lines[1].k = "built" /\ lines[2].k = "" /\ lines[3].k = "Commands:"
    /\ \A i \in 1 .. Len(commands_) :
          /\ lines[3 + i].k = "command"
          /\ lines[3 + i].name = NameAt(i)
          /\ Len(lines[3 + i].labels) = (IF ArityAt(i) > 0 THEN ArityAt(i) ELSE 0)
          /\ \A j \in 1 .. Len(lines[3 + i].labels) :
                lines[3 + i].labels[j] = <<commands_[i], j - 1>>

\* `lines` is one diagnostic of kind k about argv[1], then the help listing
IsDiagnosticThenHelp(lines, k) ==
    /\ Len(lines) >= 1
    /\ lines[1].k = k
    /\ lines[1].name = argv[2]
    /\ IsHelpListing(Tail(lines))

IsDiagnostic(l) == l.k \in {"Unknown command", "Wrong number of arguments for command"}

(* -------------------------------- claims ------------------------------ *)
\* C1: on a registry of commands with pairwise distinct names, when argv is
\* [prog, name, a1..an] with name the name of a registered command whose
\* argumentCount() is n, one call of run() invokes the run callback of that
\* command exactly once and of no other command.
C1_DispatchesExactlyTheNamedCommand ==
    (op = "run" /\ Live /\ DistinctNames /\ argc_ >= 2)
      => \A i \in 1 .. Len(commands_) :
            (NamedAs(i) /\ ArityAt(i) = Supplied) => invoked = <<commands_[i]>>

C1_Witness ==
    /\ op = "run" /\ Live /\ DistinctNames
    /\ Len(commands_) = 2
    /\ argc_ = 3
    /\ NamedAs(2) /\ ArityAt(2) = 1
    /\ ArityAt(1) = 1
    /\ invoked = <<commands_[2]>>
    /\ ret = <<0>>

\* C2: a call of run() that stays within defined behaviour returns 0 exactly
\* when a command was matched, its arity check passed and its callback
\* returned true; every other call that returns, returns 1.
C2_ReturnsZeroIffCommandSucceeded ==
    (op = "run" /\ Defined)
      => /\ ret = <<0>> <=>
               /\ argc_ >= 2
               /\ \E i \in 1 .. Len(commands_) :
                     Earliest(i) /\ ArityAt(i) = Supplied /\ invoked = <<commands_[i]>>
               /\ ok = <<TRUE>>
         /\ ret # <<0>> => ret \in {<<1>>, <<>>}
         /\ ret = <<>> <=> fault = "threw"

C2_Witness ==
    /\ op = "run" /\ Defined
    /\ ret = <<1>>
    /\ ok = <<FALSE>>
    /\ Len(invoked) = 1

\* C3: when argv[1] names a registered command and the number of supplied
\* arguments differs from its argumentCount() (fewer or more), run() returns
\* 1, prints the wrong-argument-count diagnostic and the help listing, and
\* invokes no run callback.
C3_WrongCountIsRejected ==
    (op = "run" /\ Live /\ argc_ >= 2)
      => \A i \in 1 .. Len(commands_) :
            (Earliest(i) /\ ArityAt(i) # Supplied)
              => /\ ret = <<1>>
                 /\ IsDiagnosticThenHelp(out, "Wrong number of arguments for command")
                 /\ invoked = <<>>

C3_Witness ==
    /\ op = "run" /\ Live
    /\ Len(commands_) = 1
    /\ argc_ = 4
    /\ NamedAs(1) /\ ArityAt(1) = 1
    /\ ret = <<1>> /\ invoked = <<>>
    /\ out[1].k = "Wrong number of arguments for command"

\* C4: when argv has at least 2 entries and argv[1] equals, exactly and case
\* sensitively, the name of no registered command, run() returns 1, prints
\* the unknown-command diagnostic followed by the help listing, and invokes
\* no run callback, whatever the number of trailing arguments.
C4_UnknownCommandIsRejected ==
    (op = "run" /\ Live /\ argc_ >= 2 /\ \A i \in 1 .. Len(commands_) : ~ NamedAs(i))
      => /\ ret = <<1>>
         /\ IsDiagnosticThenHelp(out, "Unknown command")
         /\ invoked = <<>>

C4_Witness ==
    /\ op = "run" /\ Live
    /\ Len(commands_) = 1
    /\ NameAt(1) = StrAdd /\ ArityAt(1) = 1
    /\ argv = <<StrProg, StrAddUpper, StrThree>>
    /\ ret = <<1>> /\ invoked = <<>>
    /\ out[1].k = "Unknown command"

\* C5: when argv holds only the program name (argc < 2), run() returns 1 and
\* prints the help listing and no diagnostic line, reads no argv[1] and
\* invokes no command.
C5_NoSubcommandPrintsHelpOnly ==
    (op = "run" /\ Live /\ argc_ < 2)
      => /\ ret = <<1>>
         /\ IsHelpListing(out)
         /\ \A k \in 1 .. Len(out) : ~ IsDiagnostic(out[k])
         /\ ~ argv1read
         /\ invoked = <<>>

C5_Witness ==
    /\ op = "run" /\ Live
    /\ argv = <<StrProg>>
    /\ Len(commands_) = 2
    /\ ret = <<1>>
    /\ Len(out) = 5

\* the registry has been emptied by clear(): it has slots, and all are null
Cleared == Len(commands_) >= 1 /\ \A i \in 1 .. Len(commands_) : commands_[i] = nullptr

\* what the last run() did, as one outcome
Observed == Outcome(ret, out, invoked, reads, ok, argv1read, fault)

\* C6: after register_command calls followed by clear(), run() behaves as
\* run() on an interpreter on which no command was ever registered (the
\* unknown-command path with a subcommand token, the missing-subcommand path
\* without one, a help listing with no command lines, return 1) and accesses
\* no destroyed or null command.
C6_RunAfterClearIsRunOnEmptyRegistry ==
    (op = "run" /\ Cleared)
      => /\ Observed \in RunOutcomes(<<>>, <<>>, argv)
         /\ fault # "nullderef"

\* C7 as stated: each failure kind of run() -- (a) missing subcommand, (b)
\* unknown subcommand, (c) arity mismatch, (d) the callback returned false --
\* prints a diagnostic and the help listing and returns the failure code.
C7_EveryFailurePrintsDiagnosticAndHelp ==
    (op = "run" /\ Live /\ Defined /\ ret # <<0>> /\ fault # "threw")
      => /\ ret = <<1>>
         /\ Len(out) >= 1
         /\ IsDiagnostic(out[1])
         /\ IsHelpListing(Tail(out))

\* C7 as the code has it: (b) and (c) print their diagnostic and then the
\* help listing; (a) prints the help listing and no diagnostic; (d) prints
\* nothing; all four return 1.
C7_FailureKindsAsHandled ==
    (op = "run" /\ Live /\ Defined /\ ret # <<0>> /\ fault # "threw")
      => /\ ret = <<1>>
         /\ argc_ < 2 => IsHelpListing(out)
         /\ (argc_ >= 2 /\ \A i \in 1 .. Len(commands_) : ~ NamedAs(i))
               => IsDiagnosticThenHelp(out, "Unknown command")
         /\ (argc_ >= 2 /\ \E i \in 1 .. Len(commands_) :
                              Earliest(i) /\ ArityAt(i) # Supplied)
               => IsDiagnosticThenHelp(out, "Wrong number of arguments for command")
         /\ ok = <<FALSE>> => out = <<>>
         /\ \/ argc_ < 2
            \/ \A i \in 1 .. Len(commands_) : ~ NamedAs(i)
            \/ \E i \in 1 .. Len(commands_) : Earliest(i) /\ ArityAt(i) # Supplied
            \/ ok = <<FALSE>>

C7_Witness ==
    /\ op = "run" /\ Live /\ Defined
    /\ Len(commands_) = 2
    /\ ret = <<1>>
    /\ ok = <<FALSE>>
    /\ out = <<>>
    /\ Len(invoked) = 1

C9_FirstRegisteredOfANameWins ==
    /\ op = "register_command"
         => /\ Len(commands_) >= 1
            /\ commands_[Len(commands_)] = Len(heap)
            /\ \A i \in 1 .. (Len(commands_) - 1) : commands_[i] # Len(heap)
    /\ (op = "run" /\ Live /\ argc_ >= 2)
         => \A i \in 1 .. Len(commands_) :
               Earliest(i)
                 => /\ \A k \in 1 .. Len(invoked) : invoked[k] = commands_[i]
                    /\ ArityAt(i) = Supplied => invoked = <<commands_[i]>>
                    /\ ArityAt(i) # Supplied
                         => /\ invoked = <<>>
                            /\ ret = <<1>>
                            /\ out[1].k = "Wrong number of arguments for command"

C9_Witness ==
    /\ op = "run" /\ Live
    /\ Len(commands_) = 2
    /\ argc_ = 3
    /\ NamedAs(1) /\ NamedAs(2)
    /\ ArityAt(1) = 0 /\ ArityAt(2) = 1
    /\ invoked = <<>>
    /\ ret = <<1>>

\* C10: whenever run() invokes a run callback, argv has exactly
\* argumentCount() + 2 entries, so a get(index) with 0 <= index <
\* argumentCount() reads argv[index + 2] below argc; get tests no bound, so
\* an index outside that range reads outside the supplied positional
\* arguments.
C10_GetReadsIndexPlusTwo ==
    (op = "run" /\ invoked # <<>>)
      => LET count == heap[invoked[1]].arity
         IN  /\ argc_ = count + 2
             /\ \A k \in 1 .. Len(reads) :
                   LET index == reads[k][1]
                       pos == reads[k][2]
                   IN  /\ pos = index + 2
                       /\ (0 <= index /\ index < count)
                            => (2 <= pos /\ pos < argc_ /\ fault # "outofrange")
                       /\ (index < 0 \/ index >= count) => ~ (2 <= pos /\ pos < argc_)
                       /\ (pos < 0 \/ pos >= argc_) => fault = "outofrange"

C10_Witness ==
    /\ op = "run"
    /\ Len(invoked) = 1
    /\ heap[invoked[1]].arity = 1
    /\ reads = <<<<0, 2>>>>
    /\ argv[3] = StrThree
    /\ ret = <<0>>

=============================================================================
